---------------------------- MODULE Spec2Model ----------------------------
(***************************************************************************)
(* Model of spatial-crop-yield.py: filter_field_boundaries(cfg) builds a   *)
(* two-entry GeoSeries of field polygons from the configuration, reads the *)
(* CSV rows and keeps the rows whose (lat, long) point intersects field_1  *)
(* or field_2.  A row whose lat or long makes float() raise ValueError is  *)
(* reported with print("Not a float") and the loop goes on.                *)
(*                                                                         *)
(* Values are modelled with their Python type: a float (finite, nan or     *)
(* +/-inf) or a str (a sequence of one-character strings).  float() and    *)
(* the point/polygon predicate are computed, not assumed.                  *)
(***************************************************************************)
EXTENDS Integers, Sequences, FiniteSets

VARIABLES cfg, csv, pc, fields, df, index, filtered_points, stdout, raised,
          returned

vars == <<cfg, csv, pc, fields, df, index, filtered_points, stdout, raised,
          returned>>

(* ------------------------------ bounds --------------------------------- *)
\* most boundary descriptors in cfg['field_boundaries']
MaxFields == 3
\* most rows in the CSV file
MaxRows == 3

(* --------------------------- Python values ----------------------------- *)
Float(n) == [ty |-> "float", cls |-> "fin", num |-> n, txt |-> <<>>]
NaN == [ty |-> "float", cls |-> "nan", num |-> 0, txt |-> <<>>]
Inf == [ty |-> "float", cls |-> "inf", num |-> 0, txt |-> <<>>]
NegInf == [ty |-> "float", cls |-> "-inf", num |-> 0, txt |-> <<>>]
Str(s) == [ty |-> "str", cls |-> "", num |-> 0, txt |-> s]

IsFinite(v) == v.ty = "float" /\ v.cls = "fin"

IsSpace(c) == c \in {" "}
IsDigit(c) == c \in {"0", "1", "2", "3", "4", "5", "6", "7", "8", "9"}
DigitVal(c) ==
    CASE c = "0" -> 0 [] c = "1" -> 1 [] c = "2" -> 2 [] c = "3" -> 3
      [] c = "4" -> 4 [] c = "5" -> 5 [] c = "6" -> 6 [] c = "7" -> 7
      [] c = "8" -> 8 [] c = "9" -> 9

Lower(c) ==
    CASE c = "N" -> "n" [] c = "A" -> "a" [] c = "I" -> "i" [] c = "F" -> "f"
      [] c = "T" -> "t" [] c = "Y" -> "y" [] OTHER -> c

RECURSIVE LStrip(_)
LStrip(s) == IF s # <<>> /\ IsSpace(Head(s)) THEN LStrip(Tail(s)) ELSE s

RECURSIVE RStrip(_)
RStrip(s) ==
    IF s # <<>> /\ IsSpace(s[Len(s)]) THEN RStrip(SubSeq(s, 1, Len(s) - 1))
    ELSE s

RECURSIVE DecVal(_)
DecVal(s) ==
    IF s = <<>> THEN 0
    ELSE 10 * DecVal(SubSeq(s, 1, Len(s) - 1)) + DigitVal(s[Len(s)])

AllDigits(s) == s # <<>> /\ \A i \in 1..Len(s) : IsDigit(s[i])
LowerSeq(s) == [i \in 1..Len(s) |-> Lower(s[i])]

\* float(str): surrounding whitespace is ignored, an optional sign, then
\* decimal digits or one of the words inf, infinity, nan in any case.
\* The result is [exc, val]; exc = "ValueError" when the text is no number.
ParseStr(s) ==
    LET t == RStrip(LStrip(s))
        neg == t # <<>> /\ Head(t) = "-"
        signed == t # <<>> /\ Head(t) \in {"-", "+"}
        body == IF signed THEN Tail(t) ELSE t
        word == LowerSeq(body)
    IN  IF AllDigits(body)
        THEN [exc |-> "none",
              val |-> Float(IF neg THEN 0 - DecVal(body) ELSE DecVal(body))]
        ELSE IF word \in {<<"i", "n", "f">>,
                          <<"i", "n", "f", "i", "n", "i", "t", "y">>}
        THEN [exc |-> "none", val |-> IF neg THEN NegInf ELSE Inf]
        ELSE IF word = <<"n", "a", "n">>
        THEN [exc |-> "none", val |-> NaN]
        ELSE [exc |-> "ValueError", val |-> NaN]

\* float(v) of a row value: a float is returned as it is, a str is parsed.
ParseFloat(v) ==
    IF v.ty = "float" THEN [exc |-> "none", val |-> v] ELSE ParseStr(v.txt)

(* ------------------------------ geometry ------------------------------- *)
\* Point(x, y) of two floats
Point(x, y) == <<x, y>>

\* Polygon([...]) of one boundary descriptor: vertices NW, NE, SE, SW, each
\* (latitude, longitude) in that order.
Polygon(d) ==
    << <<d.NW_corner.latitude, d.NW_corner.longitude>>,
       <<d.NE_corner.latitude, d.NE_corner.longitude>>,
       <<d.SE_corner.latitude, d.SE_corner.longitude>>,
       <<d.SW_corner.latitude, d.SW_corner.longitude>> >>

\* the i-th edge of the closed ring: the last vertex connects to the first
EdgeFrom(poly, i) == poly[i]
EdgeTo(poly, i) == poly[(i % Len(poly)) + 1]

Cross(a, b, p) ==
    (b[1] - a[1]) * (p[2] - a[2]) - (b[2] - a[2]) * (p[1] - a[1])

Min2(a, b) == IF a < b THEN a ELSE b
Max2(a, b) == IF a < b THEN b ELSE a

\* p lies on the closed segment a-b
OnSegment(a, b, p) ==
    /\ Cross(a, b, p) = 0
    /\ Min2(a[1], b[1]) <= p[1] /\ p[1] <= Max2(a[1], b[1])
    /\ Min2(a[2], b[2]) <= p[2] /\ p[2] <= Max2(a[2], b[2])

\* the ray from p towards +x crosses the segment a-b (half-open in y, so a
\* vertex is counted for one of its two edges only)
RayCrosses(a, b, p) ==
    /\ (a[2] > p[2]) # (b[2] > p[2])
    /\ IF b[2] > a[2]
       THEN (p[1] - a[1]) * (b[2] - a[2]) < (p[2] - a[2]) * (b[1] - a[1])
       ELSE (p[1] - a[1]) * (b[2] - a[2]) > (p[2] - a[2]) * (b[1] - a[1])

OnBoundary(poly, p) ==
    \E i \in 1..Len(poly) : OnSegment(EdgeFrom(poly, i), EdgeTo(poly, i), p)

CrossingCount(poly, p) ==
    Cardinality({i \in 1..Len(poly) :
                    RayCrosses(EdgeFrom(poly, i), EdgeTo(poly, i), p)})

\* strict interior only: what polygon.contains(point) would answer
StrictlyInside(poly, pt) ==
    /\ IsFinite(pt[1]) /\ IsFinite(pt[2])
    /\ LET p == <<pt[1].num, pt[2].num>>
       IN  ~OnBoundary(poly, p) /\ CrossingCount(poly, p) % 2 = 1

\* polygon.intersects(point): the point is in the interior or on the
\* boundary of the ring.  A point with a nan or infinite coordinate
\* intersects nothing.
Intersects(poly, pt) ==
    /\ IsFinite(pt[1]) /\ IsFinite(pt[2])
    /\ LET p == <<pt[1].num, pt[2].num>>
       IN  OnBoundary(poly, p) \/ CrossingCount(poly, p) % 2 = 1

(* ------------------------------- inputs -------------------------------- *)
Corner(x, y) == [latitude |-> x, longitude |-> y]
Box(lo, hi) ==
    [NW_corner |-> Corner(lo, lo), NE_corner |-> Corner(lo, hi),
     SE_corner |-> Corner(hi, hi), SW_corner |-> Corner(hi, lo)]

\* the square (0,0),(0,10),(10,10),(10,0)
SquareA == Box(0, 10)
\* a square overlapping SquareA in [5,10] x [5,10]; (5,5) is its NW vertex
SquareC == Box(5, 12)
\* four corners on the diagonal: zero area
Diagonal ==
    [NW_corner |-> Corner(0, 0), NE_corner |-> Corner(5, 5),
     SE_corner |-> Corner(10, 10), SW_corner |-> Corner(15, 15)]

Descriptors == {SquareA, SquareC, Diagonal}

Row(la, lo, w) == [lat |-> la, long |-> lo, weight |-> w]

\* the values a row of df.iterrows() can hold: a column pandas could not
\* convert holds the text of each cell, a numeric column holds floats, and a
\* missing cell is nan
RowInside == Row(Str(<<"5">>), Str(<<" ", "5", " ">>), Float(7))
RowOnEdge == Row(Float(0), Float(5), Str(<<"h", "e", "a", "v", "y">>))
RowFar == Row(Float(15), Float(15), Float(7))
RowBadLat == Row(Str(<<"a", "b", "c">>), Float(5), Float(7))
RowNaN == Row(NaN, Str(<<"I", "n", "f">>), Float(7))

Rows == {RowInside, RowOnEdge, RowFar, RowBadLat, RowNaN}

SeqsUpTo(S, n) == UNION {[1..k -> S] : k \in 0..n}

(* ------------------------------ the code ------------------------------- *)
NoFields == [n \in {} |-> <<>>]

\* the GeoSeries literal: exactly the entries field_1 and field_2, from
\* cfg['field_boundaries'][0] and [1]
BuildSeries(c) ==
    [n \in {"field_1", "field_2"} |->
        IF n = "field_1" THEN Polygon(c[1]) ELSE Polygon(c[2])]

\* the condition with "and" for "or"
AdmitsBoth(f, pt) ==
    Intersects(f["field_1"], pt) /\ Intersects(f["field_2"], pt)

\* the condition of the if statement
Admits(f, pt) ==
    Intersects(f["field_1"], pt) \/ Intersects(f["field_2"], pt)

\* a dict of the parsed floats in place of the row's own values
MakeRecordParsed(row) ==
    [latitude |-> ParseFloat(row.lat).val,
     longitude |-> ParseFloat(row.long).val, weight |-> row.weight]

\* the dict appended for a row: the row's own values
MakeRecord(row) ==
    [latitude |-> row.lat, longitude |-> row.long, weight |-> row.weight]

\* insertion at the front of the list
PrependPoint(list, rec) == <<rec>> \o list

\* filtered_points.append(rec)
AppendPoint(list, rec) == Append(list, rec)

\* a list that is not emptied: the one left by the previous call
NewListStale == filtered_points

\* filtered_points = []
NewList == <<>>

\* a handler that catches nothing
HandledNothing(e) == FALSE

\* except ValueError: the exceptions the handler catches
Handled(e) == e = "ValueError"

\* the body of the try block for one row: the exception it ends with, if
\* any, and the list after it
TryRow(f, list, row) ==
    LET x == ParseFloat(row.lat)
        y == ParseFloat(row.long)
    IN  IF x.exc # "none" THEN [exc |-> x.exc, list |-> list]
        ELSE IF y.exc # "none" THEN [exc |-> y.exc, list |-> list]
        ELSE IF Admits(f, Point(x.val, y.val))
        THEN [exc |-> "none", list |-> AppendPoint(list, MakeRecord(row))]
        ELSE [exc |-> "none", list |-> list]

Init ==
    /\ cfg \in SeqsUpTo(Descriptors, MaxFields)
    /\ csv \in SeqsUpTo(Rows, MaxRows)
    /\ pc = "start"
    /\ fields = NoFields
    /\ df = <<>>
    /\ index = 0
    /\ filtered_points = <<>>
    /\ stdout = <<>>
    /\ raised = "none"
    /\ returned = <<>>

\* lines 10-19: indexing field_boundaries[0] or [1] of a shorter list
\* raises IndexError, which nothing catches
BuildFields ==
    /\ pc = "start"
    /\ IF Len(cfg) < 2
       THEN /\ raised' = "IndexError"
            /\ pc' = "raised"
            /\ UNCHANGED fields
       ELSE /\ fields' = BuildSeries(cfg)
            /\ pc' = "read"
            /\ UNCHANGED raised
    /\ UNCHANGED <<cfg, csv, df, index, filtered_points, stdout, returned>>

\* lines 20-21 and the start of the iteration
ReadCsv ==
    /\ pc = "read"
    /\ df' = csv
    /\ filtered_points' = NewList
    /\ index' = 1
    /\ pc' = "loop"
    /\ UNCHANGED <<cfg, csv, fields, stdout, raised, returned>>

\* lines 22-28: one iteration of the for loop
IterRow ==
    /\ pc = "loop"
    /\ index <= Len(df)
    /\ LET r == TryRow(fields, filtered_points, df[index])
       IN  /\ filtered_points' = r.list
           /\ IF r.exc = "none"
              THEN /\ index' = index + 1
                   /\ UNCHANGED <<stdout, raised, pc>>
              ELSE IF Handled(r.exc)
              THEN /\ stdout' = Append(stdout, "Not a float")
                   /\ index' = index + 1
                   /\ UNCHANGED <<raised, pc>>
              ELSE /\ raised' = r.exc
                   /\ pc' = "raised"
                   /\ UNCHANGED <<stdout, index>>
    /\ UNCHANGED <<cfg, csv, fields, df, returned>>

\* line 29
Return ==
    /\ pc = "loop"
    /\ index > Len(df)
    /\ returned' = Append(returned, filtered_points)
    /\ pc' = "done"
    /\ UNCHANGED <<cfg, csv, fields, df, index, filtered_points, stdout,
                   raised>>

\* a caller runs the filter again over the same configuration and file.  The
\* locals of the previous call are left as they were: the code must rebind
\* each of them before it reads it.
CallAgain ==
    /\ pc = "done"
    /\ Len(returned) < 2
    /\ pc' = "start"
    /\ stdout' = <<>>
    /\ UNCHANGED <<cfg, csv, fields, df, index, filtered_points, raised,
                   returned>>

Next == BuildFields \/ ReadCsv \/ IterRow \/ Return

Spec == Init /\ [][Next]_vars

NextTwice == Next \/ CallAgain

SpecTwice == Init /\ [][NextTwice]_vars

(* ------------------------- terms of the claims ------------------------- *)
\* the rows the loop has gone through
Evaluated == IF pc \in {"loop", "done"} THEN 1..(index - 1) ELSE {}

\* both coordinates of the row are accepted by float()
Parsable(row) ==
    ParseFloat(row.lat).exc = "none" /\ ParseFloat(row.long).exc = "none"

\* both coordinates of the row are finite numbers
FiniteRow(row) ==
    /\ Parsable(row)
    /\ IsFinite(ParseFloat(row.lat).val)
    /\ IsFinite(ParseFloat(row.long).val)

PointOf(row) == <<ParseFloat(row.lat).val, ParseFloat(row.long).val>>

RecordOf(row) ==
    [latitude |-> row.lat, longitude |-> row.long, weight |-> row.weight]

\* the positions of the result that hold the record of the row
Emissions(row) ==
    {k \in 1..Len(filtered_points) : filtered_points[k] = RecordOf(row)}

Emitted(row) == Emissions(row) # {}

\* the point is contained in at least one polygon of the built field set
InSomeField(f, pt) == \E n \in DOMAIN f : Intersects(f[n], pt)

AdmittedRow(f, row) == Parsable(row) /\ InSomeField(f, PointOf(row))

RECURSIVE AdmittedRecords(_, _)
AdmittedRecords(f, rows) ==
    IF rows = <<>> THEN <<>>
    ELSE (IF AdmittedRow(f, Head(rows)) THEN <<RecordOf(Head(rows))>>
          ELSE <<>>) \o AdmittedRecords(f, Tail(rows))

\* p is a point of the closed segment a-b: on its line and between its ends
OnEdge(a, b, p) ==
    /\ Cross(a, b, p) = 0
    /\ (p[1] - a[1]) * (p[1] - b[1]) + (p[2] - a[2]) * (p[2] - b[2]) <= 0

\* the point lies on an edge or a vertex of the ring
OnRing(poly, pt) ==
    /\ IsFinite(pt[1]) /\ IsFinite(pt[2])
    /\ \E i \in 1..Len(poly) :
          OnEdge(poly[i], poly[IF i = Len(poly) THEN 1 ELSE i + 1],
                 <<pt[1].num, pt[2].num>>)

\* the four corners of a descriptor lie on one line (zero area)
Collinear(d) ==
    LET q == Polygon(d)
    IN  \A i \in 1..Len(q) : \A j \in 1..Len(q) : \A k \in 1..Len(q) :
            Cross(q[i], q[j], q[k]) = 0

TheSquare == << <<0, 0>>, <<0, 10>>, <<10, 10>>, <<10, 0>> >>

(* -------------------------------- claims ------------------------------- *)
\* C1: a row whose latitude or longitude float() rejects never ends the run:
\* no ValueError leaves the loop, a finished run has gone through every row,
\* and every admitted row after a malformed one is in the result.
C1_MalformedRowDoesNotAbort ==
    /\ raised # "ValueError"
    /\ pc = "done" => index = Len(df) + 1
    /\ pc = "done" =>
          \A i \in Evaluated : \A j \in Evaluated :
              (~Parsable(df[i]) /\ i < j /\ AdmittedRow(fields, df[j]))
                  => Emitted(df[j])

C1_Witness ==
    /\ pc = "done"
    /\ \E i \in Evaluated : \E j \in Evaluated :
          ~Parsable(df[i]) /\ i < j /\ AdmittedRow(fields, df[j])
              /\ Emitted(df[j])

\* C2: the list returned is exactly the records of the admitted rows, in the
\* order of the rows.
C2_OrderPreserved ==
    pc = "done" =>
        /\ filtered_points = AdmittedRecords(fields, df)
        /\ returned[Len(returned)] = filtered_points

C2_Witness ==
    /\ pc = "done"
    /\ fields["field_1"] = TheSquare
    /\ df = <<RowOnEdge, RowBadLat, RowInside>>
    /\ returned = << <<RecordOf(RowOnEdge), RecordOf(RowInside)>> >>

\* C3: a row with parsable coordinates is in the result if and only if its
\* point is contained in at least one polygon of the built field set, and
\* each admitted row contributes one record, also when both polygons
\* contain its point.
C3_UnionSemantics ==
    pc = "done" =>
        /\ \A i \in Evaluated :
              Parsable(df[i])
                  => (Emitted(df[i]) <=> InSomeField(fields, PointOf(df[i])))
        /\ Len(filtered_points)
              = Cardinality({i \in Evaluated : AdmittedRow(fields, df[i])})

C3_Witness ==
    /\ pc = "done"
    /\ fields["field_1"] # fields["field_2"]
    /\ Len(filtered_points) = 2
    /\ \E i \in Evaluated : \E j \in Evaluated : \E k \in Evaluated :
          /\ Intersects(fields["field_1"], PointOf(df[i]))
          /\ ~Intersects(fields["field_2"], PointOf(df[i]))
          /\ Emitted(df[i])
          /\ FiniteRow(df[j])
          /\ ~InSomeField(fields, PointOf(df[j]))
          /\ ~Emitted(df[j])
          /\ Intersects(fields["field_1"], PointOf(df[k]))
          /\ Intersects(fields["field_2"], PointOf(df[k]))
          /\ Cardinality(Emissions(df[k])) = 1

\* C4: with zero boundary descriptors the run raises nothing and returns an
\* empty result.
C4_EmptyFieldSet ==
    Len(cfg) = 0 =>
        /\ raised = "none"
        /\ pc = "done" => returned[Len(returned)] = <<>>

\* C5: the polygon of every descriptor, the third and later ones included,
\* is in the built field set, and a row whose point it contains is in the
\* result.
C5_EveryPolygonTested ==
    pc = "done" =>
        \A i \in Evaluated : \A k \in 1..Len(cfg) :
            (Parsable(df[i]) /\ Intersects(Polygon(cfg[k]), PointOf(df[i])))
                => /\ \E n \in DOMAIN fields : fields[n] = Polygon(cfg[k])
                   /\ Emitted(df[i])

\* C6: a configuration with a descriptor whose four corners are collinear
\* fails at build time: the run never gets past the build.
C6_DegenerateRejected ==
    (\E k \in 1..Len(cfg) : Collinear(cfg[k])) => pc \in {"start", "raised"}

\* C7: every row with a latitude or longitude that is not a finite number
\* (text, nan, infinity) gives no record and one report, so the reports are
\* as many as such rows.
C7_SkipsReported ==
    pc = "done" =>
        /\ \A i \in Evaluated : ~FiniteRow(df[i]) => ~Emitted(df[i])
        /\ Len(stdout) = Cardinality({i \in Evaluated : ~FiniteRow(df[i])})

\* C8: every record of the result holds the latitude, longitude and weight
\* of a row as the row holds them, not the parsed floats; the weight is not
\* parsed: a row with a non-numeric weight and contained coordinates is in
\* the result, and only unparsable coordinates are reported.
C8_PassThrough ==
    pc = "done" =>
        /\ \A k \in 1..Len(filtered_points) : \E i \in Evaluated :
              /\ filtered_points[k].latitude = df[i].lat
              /\ filtered_points[k].longitude = df[i].long
              /\ filtered_points[k].weight = df[i].weight
        /\ \A i \in Evaluated :
              (AdmittedRow(fields, df[i])
                 /\ ParseFloat(df[i].weight).exc = "ValueError")
                  => Emitted(df[i])
        /\ Len(stdout) = Cardinality({i \in Evaluated : ~Parsable(df[i])})

C8_Witness ==
    /\ pc = "done"
    /\ \E k \in 1..Len(filtered_points) :
          /\ filtered_points[k].latitude.ty = "str"
          /\ ParseFloat(filtered_points[k].latitude).val
                # filtered_points[k].latitude
    /\ \E k \in 1..Len(filtered_points) :
          ParseFloat(filtered_points[k].weight).exc = "ValueError"

\* C9: a row whose point lies on an edge or a vertex of a built polygon is
\* in the result; with the square (0,0),(0,10),(10,10),(10,0) the rows at
\* (5,5) and (0,5) are in the result and, when no other polygon is
\* configured, the row at (15,15) is not.
C9_InclusiveBoundary ==
    pc = "done" =>
        /\ \A i \in Evaluated : \A n \in DOMAIN fields :
              (Parsable(df[i]) /\ OnRing(fields[n], PointOf(df[i])))
                  => Emitted(df[i])
        /\ \A i \in Evaluated :
              /\ (fields["field_1"] = TheSquare
                    /\ PointOf(df[i]) \in {<<Float(5), Float(5)>>,
                                           <<Float(0), Float(5)>>})
                     => Emitted(df[i])
              /\ ((\A n \in DOMAIN fields : fields[n] = TheSquare)
                    /\ PointOf(df[i]) = <<Float(15), Float(15)>>)
                     => ~Emitted(df[i])

C9_Witness ==
    /\ pc = "done"
    /\ \A n \in DOMAIN fields : fields[n] = TheSquare
    /\ \E i \in Evaluated : \E j \in Evaluated : \E k \in Evaluated :
          /\ PointOf(df[i]) = <<Float(0), Float(5)>> /\ Emitted(df[i])
          /\ PointOf(df[j]) = <<Float(5), Float(5)>> /\ Emitted(df[j])
          /\ PointOf(df[k]) = <<Float(15), Float(15)>> /\ ~Emitted(df[k])

\* C10: two runs over the same configuration and the same rows return the
\* same sequence, and the decision for a row does not depend on the rows
\* before it: a row in the result is there once for each of its occurrences
\* among the rows gone through.
C10_Idempotent ==
    /\ \A a \in 1..Len(returned) : \A b \in 1..Len(returned) :
          returned[a] = returned[b]
    /\ pc = "done" =>
          \A i \in Evaluated :
              Emitted(df[i])
                  => Cardinality(Emissions(df[i]))
                        = Cardinality({j \in Evaluated : df[j] = df[i]})

C10_Witness ==
    /\ Len(returned) = 2
    /\ returned[2] # <<>>
    /\ \E i \in 1..Len(df) : ~Parsable(df[i])
    /\ \E i \in 1..Len(df) : \E j \in 1..Len(df) :
          i < j /\ df[i] = df[j] /\ Emitted(df[i])

=============================================================================
